---- MODULE Spec2Model ----
(***************************************************************************)
(* A model of TwitterRedisAPI (src/twitter_api.py): the Redis store it     *)
(* writes (tweet hashes, follower sets, timeline sorted sets, the id       *)
(* counter), and its four operations post_tweet, get_home_timeline,        *)
(* get_random_follower_id and load_follows_csv, each split into the local  *)
(* steps of the client and the single commands the server applies.  A      *)
(* pipeline opened with transaction=False is a batch of commands that the  *)
(* server applies one by one: commands of other clients may be served      *)
(* between two of them.                                                    *)
(***************************************************************************)
EXTENDS Integers, Sequences, FiniteSets, TLC

(***************************************************************************)
(* Bounds of the model.                                                    *)
(***************************************************************************)
\* posts (tweet ids) per behaviour of the concurrent specification
MaxPosts == 2
\* posts per behaviour of the single-client specification
MaxSeqPosts == 11
\* clock ticks (milliseconds) per behaviour
MaxClock == 1
\* lines read from CSV files per behaviour (all load calls together)
MaxLoadRows == 3
\* tweet ids in the stores the read-only specification starts from
MaxReadIds == 3
\* posts per behaviour of the specification that mixes posts and loads
MaxMixedPosts == 1
\* the largest retention cap a behaviour is configured with
MaxCap == 2
\* the model's stand-in for the fan-out chunk size (1000 followers per
\* flush in src/twitter_api.py:302), scaled so that a flush in the
\* middle of a fan-out happens with the model's follower counts
FanoutChunk == 2
\* the model's stand-in for the loader's chunk size (3000 queued
\* commands, src/twitter_api.py:372), scaled the same way
LoadChunkOps == 6

\* zrevrange(tl_key, 0, 9): the reader's window
ReadStop == 9
\* three SADDs are queued per edge
OpsPerEdge == 3

Users == {1, 2, 3}
\* the users that post in the concurrent specification
Authors == {1, 2}
\* the follow edges <<follower_id, followee_id>> a store may start with
FollowPairs == {<<1, 1>>, <<2, 1>>, <<3, 1>>, <<3, 2>>}
\* the user ids that occur in the CSV lines
CsvUsers == {1, 2}
Procs == {"p1", "p2"}
Texts == {"a"}

(***************************************************************************)
(* Strings.  A string is a sequence of one-character strings.  str() of a  *)
(* non-negative int is its decimal digits; int() reads them back and       *)
(* fails on anything else.                                                 *)
(***************************************************************************)
Digits == <<"0", "1", "2", "3", "4", "5", "6", "7", "8", "9">>

DigitChars == {Digits[i] : i \in 1..10}

DigitVal(c) == (CHOOSE i \in 1..10 : Digits[i] = c) - 1

RECURSIVE Str(_)
Str(n) == IF n < 10 THEN <<Digits[n + 1]>>
          ELSE Str(n \div 10) \o <<Digits[(n % 10) + 1]>>

\* int(s) succeeds (the model's strings carry no sign, blank or underscore)
IsInt(s) == Len(s) > 0 /\ \A i \in 1..Len(s) : s[i] \in DigitChars

RECURSIVE ParseInt(_)
ParseInt(s) == IF Len(s) = 0 THEN 0
          ELSE 10 * ParseInt(SubSeq(s, 1, Len(s) - 1)) + DigitVal(s[Len(s)])

\* the order of the characters the model uses (their code points)
CharCode(c) == IF c \in DigitChars THEN 48 + DigitVal(c)
               ELSE IF c = "," THEN 44
               ELSE IF c = " " THEN 32
               ELSE 120

\* memcmp order of two strings: the order Redis breaks score ties with
RECURSIVE StrLess(_, _)
StrLess(s, t) ==
    IF Len(t) = 0 THEN FALSE
    ELSE IF Len(s) = 0 THEN TRUE
    ELSE IF CharCode(s[1]) # CharCode(t[1]) THEN CharCode(s[1]) < CharCode(t[1])
    ELSE StrLess(Tail(s), Tail(t))

(***************************************************************************)
(* Sorted sets.  A sorted set is a set of [member, score] records with at  *)
(* most one record per member, ranked by score and then by member.         *)
(***************************************************************************)
ZLess(a, b) == \/ a.score < b.score
               \/ a.score = b.score /\ StrLess(a.member, b.member)

\* a rank that looks at the members only, not at the scores
ZRankByMember(z, e) == Cardinality({x \in z : StrLess(x.member, e.member)})

\* rank 0 is the lowest score
ZRank(z, e) == Cardinality({x \in z : ZLess(x, e)})

ZAdd(z, m, s) == {x \in z : x.member # m} \cup {[member |-> m, score |-> s]}

\* Redis' handling of a rank range: negative indexes count from the end
RangeLo(n, start) == IF start < 0 THEN (IF start + n < 0 THEN 0 ELSE start + n)
                     ELSE start

RangeHi(n, stop) == LET e == IF stop < 0 THEN stop + n ELSE stop
                    IN  IF e >= n THEN n - 1 ELSE e

\* a trim whose ranks count from the highest score: it evicts the newest
ZRemRangeByRankFromTop(z, start, stop) ==
    LET n  == Cardinality(z)
        lo == RangeLo(n, start)
        hi == RangeHi(n, stop)
    IN  {x \in z : ~(lo <= n - 1 - ZRank(z, x) /\ n - 1 - ZRank(z, x) <= hi)}

ZRemRangeByRank(z, start, stop) ==
    LET n  == Cardinality(z)
        lo == RangeLo(n, start)
        hi == RangeHi(n, stop)
    IN  {x \in z : ~(lo <= ZRank(z, x) /\ ZRank(z, x) <= hi)}

\* the members at ranks start..stop counted from the highest score
ZRevRange(z, start, stop) ==
    LET n  == Cardinality(z)
        lo == RangeLo(n, start)
        hi == RangeHi(n, stop)
        at(i) == CHOOSE x \in z : ZRank(z, x) = n - 1 - i
    IN  IF lo > hi \/ lo >= n THEN <<>>
        ELSE [i \in 1..(hi - lo + 1) |-> at(lo + i - 1).member]

(***************************************************************************)
(* CSV lines.  A data line is "follower_id,followee_id".                   *)
(***************************************************************************)
Line(a, b) == Str(a) \o <<",">> \o Str(b)

\* line.strip()
RECURSIVE LStrip(_)
LStrip(s) == IF Len(s) > 0 /\ s[1] = " " THEN LStrip(Tail(s)) ELSE s

RECURSIVE RStrip(_)
RStrip(s) == IF Len(s) > 0 /\ s[Len(s)] = " "
             THEN RStrip(SubSeq(s, 1, Len(s) - 1)) ELSE s

Strip(s) == RStrip(LStrip(s))

\* line.split(",", 1): one part without a comma, else the two parts around
\* the first comma
Split1(s) ==
    LET commas == {i \in 1..Len(s) : s[i] = ","}
    IN  IF commas = {} THEN <<s>>
        ELSE LET i == CHOOSE j \in commas : \A k \in commas : j <= k
             IN  <<SubSeq(s, 1, i - 1), SubSeq(s, i + 1, Len(s))>>

\* the unpacking and the two int() calls succeed
ParsesAsEdge(s) == /\ Len(Split1(s)) = 2
                   /\ IsInt(Split1(s)[1])
                   /\ IsInt(Split1(s)[2])

EdgeLines == {Line(a, b) : a \in CsvUsers, b \in CsvUsers}

BlankLine == <<>>

\* wrong arity, and a non-numeric field
BadLines == {<<"x">>, <<"1", ",", "x">>}

Lines == EdgeLines \cup {BlankLine} \cup BadLines

(***************************************************************************)
(* The state.                                                              *)
(***************************************************************************)
VARIABLES
    next_tweet_id,      \* the STRING key next_tweet_id (absent reads as 0)
    tweet,              \* tweet:{id} hashes: a function from the stored ids
    followers,          \* followers:{user_id} sets of follower id strings
    following,          \* following:{user_id} sets of followee id strings
    all_followers,      \* the set all_followers
    timeline,           \* timeline:{user_id} sorted sets
    timeline_max_size,  \* the configured cap: {} is None, {K} is K
    now,                \* the clock, in milliseconds
    pc,                 \* where each client is in its call
    loc,                \* the locals of each client's call
    lines_read,         \* how many CSV lines the clients have read
    issued,             \* history: the replies of INCR next_tweet_id, in order
    arrivals,           \* history: per timeline, the entries ZADDed, in order
    reported,           \* history: the sum of the counts load_follows_csv returned
    raised              \* history: some load_follows_csv call has raised

store == <<next_tweet_id, tweet, followers, following, all_followers, timeline>>

vars == <<next_tweet_id, tweet, followers, following, all_followers, timeline,
          timeline_max_size, now, pc, loc, lines_read, issued, arrivals,
          reported, raised>>

\* what only the loader changes
loads == <<lines_read, reported, raised>>

\* Optional values: None is the empty set
None == {}

Some(x) == {x}

The(o) == CHOOSE x \in o : TRUE

NoLocals == [user_id |-> 0, tweet_text |-> "", tweet_id |-> 0, ts_ms |-> 0,
             pipe |-> <<>>, ops |-> 0, flight |-> <<>>, results |-> <<>>,
             seen |-> {}, scan0 |-> {}, inserted |-> 0, has_header |-> FALSE,
             rows |-> <<>>, tweet_ids |-> <<>>, out |-> <<>>, v |-> None,
             error |-> None, fans |-> {}, excused |-> {}]

Caps == {None} \cup {Some(k) : k \in 0..MaxCap}

\* the follow graph a completed load_follows_csv leaves for a set of edges
\* <<follower_id, followee_id>>
FollowersOf(edges) == [u \in Users |-> {Str(e[1]) : e \in {x \in edges : x[2] = u}}]

FollowingOf(edges) == [u \in Users |-> {Str(e[2]) : e \in {x \in edges : x[1] = u}}]

AllFollowersOf(edges) == {Str(e[1]) : e \in edges}

\* the clients, their locals and the counters before any call
InitClients ==
    /\ next_tweet_id = 0
    /\ tweet = <<>>
    /\ timeline = [u \in Users |-> {}]
    /\ now = 0
    /\ pc = [p \in Procs |-> "idle"]
    /\ loc = [p \in Procs |-> NoLocals]
    /\ lines_read = 0
    /\ issued = <<>>
    /\ arrivals = [u \in Users |-> <<>>]
    /\ reported = 0
    /\ raised = FALSE

\* TwitterRedisAPI() on a store that holds a follow graph (load_follows.py
\* has run, any CSV file) and no tweets
Init ==
    /\ InitClients
    /\ timeline_max_size \in Caps
    /\ \E edges \in SUBSET FollowPairs :
         /\ followers = FollowersOf(edges)
         /\ following = FollowingOf(edges)
         /\ all_followers = AllFollowersOf(edges)

\* TwitterRedisAPI() on an empty store, as load_follows.py constructs it
InitEmpty ==
    /\ InitClients
    /\ timeline_max_size = None
    /\ followers = [u \in Users |-> {}]
    /\ following = [u \in Users |-> {}]
    /\ all_followers = {}

(***************************************************************************)
(* The commands a pipeline queues, and what the server does with one.      *)
(***************************************************************************)
HSetCmd(id, mapping) == [op |-> "HSET", key |-> id, mapping |-> mapping]

ZAddCmd(user, m, s) == [op |-> "ZADD", key |-> user, member |-> m, score |-> s]

ZRemRangeByRankCmd(user, start, stop) ==
    [op |-> "ZREMRANGEBYRANK", key |-> user, start |-> start, stop |-> stop]

SAddCmd(family, user, m) == [op |-> "SADD", family |-> family, key |-> user, member |-> m]

\* the set a SADD goes to
SetOf(c) == IF c.family = "followers" THEN followers[c.key]
            ELSE IF c.family = "following" THEN following[c.key]
            ELSE all_followers

\* the server's reply to a command
Reply(c) ==
    IF c.op = "SADD" THEN (IF c.member \in SetOf(c) THEN 0 ELSE 1)
    ELSE IF c.op = "ZADD"
         THEN (IF \E x \in timeline[c.key] : x.member = c.member THEN 0 ELSE 1)
    ELSE IF c.op = "ZREMRANGEBYRANK"
         THEN Cardinality(timeline[c.key])
              - Cardinality(ZRemRangeByRank(timeline[c.key], c.start, c.stop))
    ELSE (IF c.key \in DOMAIN tweet THEN 0 ELSE 3)

\* the store after the server has applied a command
Apply(c) ==
    /\ tweet' = IF c.op = "HSET"
                THEN [i \in (DOMAIN tweet) \cup {c.key} |->
                        IF i = c.key THEN c.mapping ELSE tweet[i]]
                ELSE tweet
    /\ timeline' =
         IF c.op = "ZADD"
         THEN [timeline EXCEPT ![c.key] = ZAdd(@, c.member, c.score)]
         ELSE IF c.op = "ZREMRANGEBYRANK"
         THEN [timeline EXCEPT ![c.key] = ZRemRangeByRank(@, c.start, c.stop)]
         ELSE timeline
    /\ followers' = IF c.op = "SADD" /\ c.family = "followers"
                    THEN [followers EXCEPT ![c.key] = @ \cup {c.member}]
                    ELSE followers
    /\ following' = IF c.op = "SADD" /\ c.family = "following"
                    THEN [following EXCEPT ![c.key] = @ \cup {c.member}]
                    ELSE following
    /\ all_followers' = IF c.op = "SADD" /\ c.family = "all_followers"
                        THEN all_followers \cup {c.member}
                        ELSE all_followers
    /\ arrivals' = IF c.op = "ZADD"
                   THEN [arrivals EXCEPT ![c.key] =
                           Append(@, [member |-> c.member, score |-> c.score])]
                   ELSE arrivals

(***************************************************************************)
(* Executing a pipeline.  pipe.execute() hands the queued commands to the  *)
(* server (loc.flight); Exec is the server applying the next one.  The     *)
(* client goes on when the last reply has arrived.                         *)
(***************************************************************************)
\* a count of every reply, not of the first of each three
RECURSIVE SumAll(_)
SumAll(results) ==
    IF Len(results) = 0 THEN 0 ELSE results[1] + SumAll(Tail(results))

\* sum(int(x) for x in results[0::3])
RECURSIVE SumEveryThird(_)
SumEveryThird(results) ==
    IF Len(results) = 0 THEN 0
    ELSE results[1] + SumEveryThird(SubSeq(results, OpsPerEdge + 1, Len(results)))

\* where the client goes on after pipe.execute() has returned
AfterExecute(at) ==
    IF at = "post_author_exec" THEN "post_scan_begin"
    ELSE IF at = "post_chunk_exec" THEN "post_scan"
    ELSE IF at = "post_final_exec" THEN "post_ret"
    ELSE IF at = "load_chunk_exec" THEN "load_read"
    ELSE "load_ret"

ExecPcs == {"post_author_exec", "post_chunk_exec", "post_final_exec",
            "load_chunk_exec", "load_final_exec"}

Exec(p) ==
    /\ pc[p] \in ExecPcs
    /\ loc[p].flight # <<>>
    /\ LET c       == Head(loc[p].flight)
           results == Append(loc[p].results, Reply(c))
           last    == Len(loc[p].flight) = 1
           loading == pc[p] \in {"load_chunk_exec", "load_final_exec"}
       IN  /\ Apply(c)
           /\ loc' = [loc EXCEPT ![p] =
                        [@ EXCEPT !.flight = Tail(@),
                                  !.results = IF last THEN <<>> ELSE results,
                                  !.inserted = IF last /\ loading
                                               THEN @ + SumEveryThird(results)
                                               ELSE @,
                                  !.ops = IF last /\ loading THEN 0 ELSE @]]
           /\ pc' = [pc EXCEPT ![p] = IF last THEN AfterExecute(@) ELSE @]
    /\ UNCHANGED <<next_tweet_id, timeline_max_size, now, loads, issued>>

(***************************************************************************)
(* post_tweet                                                              *)
(***************************************************************************)
\* a read of the counter in place of INCR
IncrStale(counter) == counter

\* INCR: the new value of the counter, which is also the reply
Incr(counter) == counter + 1

\* tweet_id = int(self.r.incr("next_tweet_id"))
PostIncr(p, user_id, tweet_text, max_posts) ==
    /\ pc[p] = "idle"
    /\ next_tweet_id < max_posts
    /\ next_tweet_id' = Incr(next_tweet_id)
    /\ issued' = Append(issued, next_tweet_id')
    /\ loc' = [loc EXCEPT ![p] = [NoLocals EXCEPT !.user_id = user_id,
                                                  !.tweet_text = tweet_text,
                                                  !.tweet_id = next_tweet_id']]
    /\ pc' = [pc EXCEPT ![p] = "post_now"]
    /\ UNCHANGED <<tweet, followers, following, all_followers, timeline,
                   timeline_max_size, now, loads, arrivals>>

\* the scores of the k highest-ranked entries of a sorted set
TopScores(z, k) == {x.score : x \in {y \in z : Cardinality(z) - ZRank(z, y) <= k}}

\* history of a post, taken when its score is: the timeline is at its
\* capacity and the score is not among its top K scores
OutOfTop(z, ts) == /\ timeline_max_size # None
                   /\ Cardinality(z) >= The(timeline_max_size)
                   /\ ts \notin TopScores(z, The(timeline_max_size))

\* a trim that is off by one: it keeps K + 1 entries
TrimStopOffByOne(k) == 0 - k - 2

\* the stop rank of the trim: -self.timeline_max_size - 1
TrimStop(k) == 0 - k - 1

\* writes that go to the timeline of the next user instead
TimelineWritesMisrouted(user, tweet_id, ts_ms) ==
    LET other == (user % Cardinality(Users)) + 1
    IN  <<ZAddCmd(other, Str(tweet_id), ts_ms)>>
        \o (IF timeline_max_size # None
            THEN <<ZRemRangeByRankCmd(other, 0, TrimStop(The(timeline_max_size)))>>
            ELSE <<>>)

\* the ZADD of a tweet to one timeline and, with a cap, the trim after it
TimelineWrites(user, tweet_id, ts_ms) ==
    <<ZAddCmd(user, Str(tweet_id), ts_ms)>>
    \o (IF timeline_max_size # None
        THEN <<ZRemRangeByRankCmd(user, 0, TrimStop(The(timeline_max_size)))>>
        ELSE <<>>)

\* an author's pipeline that stores the hash and leaves the timeline alone
AuthorPipeRecordOnly(l, ts) ==
    <<HSetCmd(l.tweet_id, [user_id |-> Str(l.user_id),
                           tweet_ts |-> Str(ts),
                           tweet_text |-> l.tweet_text])>>

\* an author's pipeline that queues the timeline's commands before the HSET
AuthorPipeTimelineFirst(l, ts) ==
    TimelineWrites(l.user_id, l.tweet_id, ts)
    \o <<HSetCmd(l.tweet_id, [user_id |-> Str(l.user_id),
                              tweet_ts |-> Str(ts),
                              tweet_text |-> l.tweet_text])>>

\* the author's pipeline: the HSET of the hash, then the timeline's commands
AuthorPipe(l, ts) ==
    <<HSetCmd(l.tweet_id, [user_id |-> Str(l.user_id),
                           tweet_ts |-> Str(ts),
                           tweet_text |-> l.tweet_text])>>
    \o TimelineWrites(l.user_id, l.tweet_id, ts)

\* _now_ts(), the author's pipeline and its execute()
PostAuthor(p) ==
    /\ pc[p] = "post_now"
    /\ LET l  == loc[p]
           ts == now
           pipe == AuthorPipe(l, ts)
       IN  loc' = [loc EXCEPT ![p] =
                     [l EXCEPT !.ts_ms = ts, !.flight = pipe,
                               !.fans = followers[l.user_id],
                               !.excused = {m \in followers[l.user_id] :
                                              IsInt(m) /\ OutOfTop(timeline[ParseInt(m)], ts)}]]
    /\ pc' = [pc EXCEPT ![p] = "post_author_exec"]
    /\ UNCHANGED <<store, timeline_max_size, now, loads, issued, arrivals>>

\* the fan-out's pipeline is opened and SSCAN starts: what is in the set now
\* is returned by the iteration, what is added later may or may not be
PostScanBegin(p) ==
    /\ pc[p] = "post_scan_begin"
    /\ loc' = [loc EXCEPT ![p] = [@ EXCEPT !.pipe = <<>>, !.ops = 0, !.seen = {},
                                           !.scan0 = followers[loc[p].user_id]]]
    /\ pc' = [pc EXCEPT ![p] = "post_scan"]
    /\ UNCHANGED <<store, timeline_max_size, now, loads, issued, arrivals>>

\* one turn of the loop over sscan_iter(followers_key)
PostFollower(p) ==
    /\ pc[p] = "post_scan"
    /\ \E follower_id_str \in followers[loc[p].user_id] \ loc[p].seen :
         LET l    == loc[p]
             seen == l.seen \cup {follower_id_str}
         IN  IF ~IsInt(follower_id_str)
             THEN /\ loc' = [loc EXCEPT ![p] = [l EXCEPT !.seen = seen]]
                  /\ pc' = pc
             ELSE LET pipe == l.pipe \o TimelineWrites(ParseInt(follower_id_str),
                                                       l.tweet_id, l.ts_ms)
                      ops  == l.ops + 1
                  IN  IF ops % FanoutChunk = 0
                      THEN /\ loc' = [loc EXCEPT ![p] =
                                        [l EXCEPT !.seen = seen, !.ops = ops,
                                                  !.flight = pipe, !.pipe = <<>>]]
                           /\ pc' = [pc EXCEPT ![p] = "post_chunk_exec"]
                      ELSE /\ loc' = [loc EXCEPT ![p] =
                                        [l EXCEPT !.seen = seen, !.ops = ops,
                                                  !.pipe = pipe]]
                           /\ pc' = pc
    /\ UNCHANGED <<store, timeline_max_size, now, loads, issued, arrivals>>

\* the iteration ends; the remainder is flushed
PostScanEnd(p) ==
    /\ pc[p] = "post_scan"
    /\ loc[p].scan0 \subseteq loc[p].seen
    /\ IF loc[p].ops % FanoutChunk # 0
       THEN /\ loc' = [loc EXCEPT ![p] = [@ EXCEPT !.flight = loc[p].pipe, !.pipe = <<>>]]
            /\ pc' = [pc EXCEPT ![p] = "post_final_exec"]
       ELSE /\ loc' = loc
            /\ pc' = [pc EXCEPT ![p] = "post_ret"]
    /\ UNCHANGED <<store, timeline_max_size, now, loads, issued, arrivals>>

\* a failure that strikes inside a flush, while the server still has
\* commands of the chunk to apply
PostFailsInFlush(p) ==
    /\ pc[p] = "post_chunk_exec"
    /\ loc[p].flight # <<>>
    /\ loc' = [loc EXCEPT ![p] = [@ EXCEPT !.error = Some("ConnectionError")]]
    /\ pc' = [pc EXCEPT ![p] = "post_raise"]
    /\ UNCHANGED <<store, timeline_max_size, now, loads, issued, arrivals>>

\* a round trip of sscan_iter fails (the store is unavailable) or the caller
\* gives the call up while the loop runs: the exception leaves the loop
\* between two flushes
PostScanFails(p) ==
    /\ pc[p] = "post_scan"
    /\ loc' = [loc EXCEPT ![p] = [@ EXCEPT !.error = Some("ConnectionError")]]
    /\ pc' = [pc EXCEPT ![p] = "post_raise"]
    /\ UNCHANGED <<store, timeline_max_size, now, loads, issued, arrivals>>

\* the exception leaves post_tweet; the pipeline that was being filled is
\* dropped with the locals
PostRaise(p) ==
    /\ pc[p] = "post_raise"
    /\ pc' = [pc EXCEPT ![p] = "idle"]
    /\ loc' = [loc EXCEPT ![p] = NoLocals]
    /\ UNCHANGED <<store, timeline_max_size, now, loads, issued, arrivals>>

\* return tweet_id
PostReturn(p) ==
    /\ pc[p] = "post_ret"
    /\ pc' = [pc EXCEPT ![p] = "idle"]
    /\ loc' = [loc EXCEPT ![p] = NoLocals]
    /\ UNCHANGED <<store, timeline_max_size, now, loads, issued, arrivals>>

\* a millisecond passes
Tick ==
    /\ now < MaxClock
    /\ now' = now + 1
    /\ UNCHANGED <<store, timeline_max_size, pc, loc, loads, issued, arrivals>>

(***************************************************************************)
(* get_home_timeline                                                       *)
(***************************************************************************)
\* HGETALL tweet:{id}: the empty dict of a missing key reads as None
HGetAll(id) == IF id \in DOMAIN tweet THEN Some(tweet[id]) ELSE None

\* a loop that ends at the first entry without a hash (break for continue)
RECURSIVE ResolveStopsAtMissing(_)
ResolveStopsAtMissing(tweet_ids) ==
    IF Len(tweet_ids) = 0 THEN <<>>
    ELSE LET tid == tweet_ids[1]
             h   == HGetAll(ParseInt(tid))
         IN  IF h = None THEN <<>>
             ELSE <<[tweet_id   |-> ParseInt(tid),
                     user_id    |-> ParseInt(The(h).user_id),
                     tweet_ts   |-> The(h).tweet_ts,
                     tweet_text |-> The(h).tweet_text]>>
                  \o ResolveStopsAtMissing(Tail(tweet_ids))

\* the loop over zip(tweet_ids, rows): entries without a hash are skipped
RECURSIVE Resolve(_)
Resolve(tweet_ids) ==
    IF Len(tweet_ids) = 0 THEN <<>>
    ELSE LET tid == tweet_ids[1]
             h   == HGetAll(ParseInt(tid))
         IN  (IF h = None THEN <<>>
              ELSE <<[tweet_id   |-> ParseInt(tid),
                      user_id    |-> ParseInt(The(h).user_id),
                      tweet_ts   |-> The(h).tweet_ts,
                      tweet_text |-> The(h).tweet_text]>>)
             \o Resolve(Tail(tweet_ids))

\* a ZRANGE in place of the ZREVRANGE: the lowest scores, ascending
TopOfTimelineAscending(user_id) ==
    LET all == ZRevRange(timeline[user_id], 0, 0 - 1)
        n   == Len(all)
    IN  [i \in 1..(IF n > ReadStop + 1 THEN ReadStop + 1 ELSE n) |-> all[n + 1 - i]]

\* self.r.zrevrange(tl_key, 0, 9)
TopOfTimeline(user_id) == ZRevRange(timeline[user_id], 0, ReadStop)

\* what get_home_timeline(user_id) returns when it runs now, undisturbed
HomeTimeline(user_id) == Resolve(TopOfTimeline(user_id))

HomeRange(p, user_id) ==
    /\ pc[p] = "idle"
    /\ LET tweet_ids == TopOfTimeline(user_id)
       IN  /\ loc' = [loc EXCEPT ![p] = [NoLocals EXCEPT !.user_id = user_id,
                                                         !.tweet_ids = tweet_ids]]
           /\ pc' = [pc EXCEPT ![p] = IF tweet_ids = <<>> THEN "home_ret"
                                      ELSE "home_resolve"]
    /\ UNCHANGED <<store, timeline_max_size, now, loads, issued, arrivals>>

\* the pipeline of HGETALLs (hashes are written once and never deleted, so
\* its commands are taken in one step) and the loop that builds the result
HomeResolve(p) ==
    /\ pc[p] = "home_resolve"
    /\ loc' = [loc EXCEPT ![p] = [@ EXCEPT !.out = Resolve(loc[p].tweet_ids)]]
    /\ pc' = [pc EXCEPT ![p] = "home_ret"]
    /\ UNCHANGED <<store, timeline_max_size, now, loads, issued, arrivals>>

HomeReturn(p) ==
    /\ pc[p] = "home_ret"
    /\ pc' = [pc EXCEPT ![p] = "idle"]
    /\ loc' = [loc EXCEPT ![p] = NoLocals]
    /\ UNCHANGED <<store, timeline_max_size, now, loads, issued, arrivals>>

(***************************************************************************)
(* get_random_follower_id                                                  *)
(***************************************************************************)
\* a SRANDMEMBER that may find nothing in a set that has members
SRandMemberOrNone(set) == {None} \cup {Some(m) : m \in set}

\* SRANDMEMBER: the replies the server may give
SRandMember(set) == IF set = {} THEN {None} ELSE {Some(m) : m \in set}

\* int(v) if v is not None else None; int() raises ValueError
Sample(p) ==
    /\ pc[p] = "idle"
    /\ \E v \in SRandMember(all_followers) :
         loc' = [loc EXCEPT ![p] =
                   [NoLocals EXCEPT !.v = IF v # None /\ IsInt(The(v))
                                          THEN Some(ParseInt(The(v))) ELSE None,
                                    !.error = IF v # None /\ ~IsInt(The(v))
                                              THEN Some("ValueError") ELSE None]]
    /\ pc' = [pc EXCEPT ![p] = "sample_ret"]
    /\ UNCHANGED <<store, timeline_max_size, now, loads, issued, arrivals>>

SampleReturn(p) ==
    /\ pc[p] = "sample_ret"
    /\ pc' = [pc EXCEPT ![p] = "idle"]
    /\ loc' = [loc EXCEPT ![p] = NoLocals]
    /\ UNCHANGED <<store, timeline_max_size, now, loads, issued, arrivals>>

(***************************************************************************)
(* load_follows_csv                                                        *)
(***************************************************************************)
LoadStart(p, has_header) ==
    /\ pc[p] = "idle"
    /\ loc' = [loc EXCEPT ![p] = [NoLocals EXCEPT !.has_header = has_header]]
    /\ pc' = [pc EXCEPT ![p] = "load_read"]
    /\ UNCHANGED <<store, timeline_max_size, now, loads, issued, arrivals>>

\* an edge whose third SADD puts the followee in all_followers
EdgeWritesSampleFollowee(follower_id, followee_id) ==
    <<SAddCmd("followers", followee_id, Str(follower_id)),
      SAddCmd("following", follower_id, Str(followee_id)),
      SAddCmd("all_followers", 0, Str(followee_id))>>

\* the three SADDs of one edge
EdgeWrites(follower_id, followee_id) ==
    <<SAddCmd("followers", followee_id, Str(follower_id)),
      SAddCmd("following", follower_id, Str(followee_id)),
      SAddCmd("all_followers", 0, Str(follower_id))>>

\* the file yields its next line: next(f, None) for the header, else one
\* turn of the loop
LoadLine(p, line, max_rows) ==
    /\ pc[p] = "load_read"
    /\ lines_read < max_rows
    /\ lines_read' = lines_read + 1
    /\ LET l     == loc[p]
           rows  == Append(l.rows, line)
           s     == Strip(line)
           parts == Split1(s)
       IN  IF l.has_header /\ l.rows = <<>>
           THEN /\ loc' = [loc EXCEPT ![p] = [l EXCEPT !.rows = rows]]
                /\ pc' = pc
           ELSE IF s = <<>>
           THEN /\ loc' = [loc EXCEPT ![p] = [l EXCEPT !.rows = rows]]
                /\ pc' = pc
           ELSE IF ~ParsesAsEdge(s)
           THEN /\ loc' = [loc EXCEPT ![p] =
                             [l EXCEPT !.rows = rows, !.error = Some("ValueError")]]
                /\ pc' = [pc EXCEPT ![p] = "load_raise"]
           ELSE LET pipe == l.pipe \o EdgeWrites(ParseInt(parts[1]), ParseInt(parts[2]))
                    ops  == l.ops + OpsPerEdge
                IN  IF ops >= LoadChunkOps
                    THEN /\ loc' = [loc EXCEPT ![p] =
                                      [l EXCEPT !.rows = rows, !.ops = ops,
                                                !.flight = pipe, !.pipe = <<>>]]
                         /\ pc' = [pc EXCEPT ![p] = "load_chunk_exec"]
                    ELSE /\ loc' = [loc EXCEPT ![p] =
                                      [l EXCEPT !.rows = rows, !.ops = ops,
                                                !.pipe = pipe]]
                         /\ pc' = pc
    /\ UNCHANGED <<store, timeline_max_size, now, issued, arrivals, reported, raised>>

\* an end of file that returns without the flush of what is queued
LoadEOFNoFlush(p) ==
    /\ pc[p] = "load_read"
    /\ loc' = loc
    /\ pc' = [pc EXCEPT ![p] = "load_ret"]
    /\ UNCHANGED <<store, timeline_max_size, now, loads, issued, arrivals>>

\* the file is exhausted: if ops: pipe.execute()
LoadEOF(p) ==
    /\ pc[p] = "load_read"
    /\ IF loc[p].ops # 0
       THEN /\ loc' = [loc EXCEPT ![p] = [@ EXCEPT !.flight = loc[p].pipe, !.pipe = <<>>]]
            /\ pc' = [pc EXCEPT ![p] = "load_final_exec"]
       ELSE /\ loc' = loc
            /\ pc' = [pc EXCEPT ![p] = "load_ret"]
    /\ UNCHANGED <<store, timeline_max_size, now, loads, issued, arrivals>>

\* return inserted
LoadReturn(p) ==
    /\ pc[p] = "load_ret"
    /\ pc' = [pc EXCEPT ![p] = "idle"]
    /\ loc' = [loc EXCEPT ![p] = NoLocals]
    /\ reported' = reported + loc[p].inserted
    /\ UNCHANGED <<store, timeline_max_size, now, lines_read, raised, issued, arrivals>>

\* the ValueError leaves load_follows_csv; what was queued is dropped
LoadRaise(p) ==
    /\ pc[p] = "load_raise"
    /\ pc' = [pc EXCEPT ![p] = "idle"]
    /\ loc' = [loc EXCEPT ![p] = NoLocals]
    /\ raised' = TRUE
    /\ UNCHANGED <<store, timeline_max_size, now, lines_read, reported, issued, arrivals>>

(***************************************************************************)
(* The specifications.                                                     *)
(***************************************************************************)
\* posts of any number of clients, here two, whose steps interleave
Next ==
    \/ Tick
    \/ \E p \in Procs :
         \/ \E u \in Authors, text \in Texts : PostIncr(p, u, text, MaxPosts)
         \/ PostAuthor(p)
         \/ PostScanBegin(p)
         \/ PostFollower(p)
         \/ PostScanEnd(p)
         \/ PostReturn(p)
         \/ Exec(p)

Spec == Init /\ [][Next]_vars

\* one client whose calls follow one another
SeqAuthors == {1}

SeqCaps == Caps \ {Some(0)}

InitSeq == Init /\ timeline_max_size \in SeqCaps

NextSeq ==
    \/ Tick
    \/ \E u \in SeqAuthors : PostIncr("p1", u, "a", MaxSeqPosts)
    \/ PostAuthor("p1")
    \/ PostScanBegin("p1")
    \/ PostFollower("p1")
    \/ PostScanEnd("p1")
    \/ PostReturn("p1")
    \/ Exec("p1")
    \/ \E u \in Users : HomeRange("p1", u)
    \/ HomeResolve("p1")
    \/ HomeReturn("p1")

SpecSeq == InitSeq /\ [][NextSeq]_vars

\* posts of one client whose fan-out may fail between two flushes
NextFail ==
    \/ Tick
    \/ \E u \in Authors : PostIncr("p1", u, "a", MaxPosts)
    \/ PostAuthor("p1")
    \/ PostScanBegin("p1")
    \/ PostFollower("p1")
    \/ PostScanEnd("p1")
    \/ PostReturn("p1")
    \/ PostScanFails("p1")
    \/ PostRaise("p1")
    \/ Exec("p1")

SpecFail == Init /\ [][NextFail]_vars

\* the sorted sets over the ids 1..MaxReadIds with scores 0..MaxClock
ReadTimelines ==
    UNION {{{[member |-> Str(i), score |-> f[i]] : i \in ids} :
              f \in [ids -> 0..MaxClock]} : ids \in SUBSET (1..MaxReadIds)}

\* TwitterRedisAPI() on a store that tweets were posted to and from which
\* tweet hashes have since gone (the store enforces no foreign keys): any
\* timeline of user 1 over the ids issued, any subset of the hashes
InitRead ==
    /\ next_tweet_id = MaxReadIds
    /\ \E kept \in SUBSET (1..MaxReadIds) :
         tweet = [i \in kept |-> [user_id |-> Str(1), tweet_ts |-> Str(0),
                                  tweet_text |-> "a"]]
    /\ \E z \in ReadTimelines : timeline = [u \in Users |-> IF u = 1 THEN z ELSE {}]
    /\ timeline_max_size = None
    /\ followers = [u \in Users |-> {}]
    /\ following = [u \in Users |-> {}]
    /\ all_followers = {}
    /\ now = MaxClock
    /\ pc = [p \in Procs |-> "idle"]
    /\ loc = [p \in Procs |-> NoLocals]
    /\ lines_read = 0
    /\ issued = [i \in 1..MaxReadIds |-> i]
    /\ arrivals = [u \in Users |-> <<>>]
    /\ reported = 0
    /\ raised = FALSE

\* reads of one client
NextRead ==
    \/ \E u \in Users : HomeRange("p1", u)
    \/ HomeResolve("p1")
    \/ HomeReturn("p1")

SpecRead == InitRead /\ [][NextRead]_vars

\* one client posts while the other loads follow edges and reads timelines
NextMixed ==
    \/ \E u \in SeqAuthors : PostIncr("p1", u, "a", MaxMixedPosts)
    \/ PostAuthor("p1")
    \/ PostScanBegin("p1")
    \/ PostFollower("p1")
    \/ PostScanEnd("p1")
    \/ PostReturn("p1")
    \/ Exec("p1")
    \/ LoadStart("p2", FALSE)
    \/ \E line \in EdgeLines : LoadLine("p2", line, MaxLoadRows)
    \/ LoadEOF("p2")
    \/ LoadReturn("p2")
    \/ Exec("p2")
    \/ \E u \in Users : HomeRange("p2", u)
    \/ HomeResolve("p2")
    \/ HomeReturn("p2")

SpecMixed == Init /\ [][NextMixed]_vars

\* loads and samples of two clients on a store that starts empty
NextLoad ==
    \E p \in Procs :
        \/ \E h \in BOOLEAN : LoadStart(p, h)
        \/ \E line \in Lines : LoadLine(p, line, MaxLoadRows)
        \/ LoadEOF(p)
        \/ LoadReturn(p)
        \/ LoadRaise(p)
        \/ Exec(p)
        \/ Sample(p)
        \/ SampleReturn(p)

SpecLoad == InitEmpty /\ [][NextLoad]_vars

(***************************************************************************)
(* Properties.                                                             *)
(***************************************************************************)
Capped == timeline_max_size # None

K == The(timeline_max_size)

PostPcs == {"post_now", "post_author_exec", "post_scan_begin", "post_scan",
            "post_chunk_exec", "post_final_exec", "post_ret", "post_raise"}

\* every post_tweet call that was started has returned
NoPostRunning == \A p \in Procs : pc[p] \notin PostPcs

Members(z) == {x.member : x \in z}

Range(seq) == {seq[i] : i \in 1..Len(seq)}

\* C1: with a cap K configured, once the post calls made so far have all
\* completed, every timeline (the authors' and the followers') holds at
\* most K entries.
C1_TimelinesWithinCap ==
    (Capped /\ NoPostRunning) => \A u \in Users : Cardinality(timeline[u]) <= K

\* two posts have completed and both an author's and a follower's timeline
\* were trimmed to K >= 1 entries
C1_Witness ==
    /\ Capped /\ K >= 1 /\ NoPostRunning
    /\ \E a \in Users, f \in Users :
         /\ a # f
         /\ Str(f) \in followers[a]
         /\ \A i \in DOMAIN tweet : tweet[i].user_id = Str(a)
         /\ Cardinality(Range(arrivals[a])) > K /\ Cardinality(timeline[a]) = K
         /\ Cardinality(Range(arrivals[f])) > K /\ Cardinality(timeline[f]) = K

\* C6: the ids INCR has handed out are strictly increasing in the order of
\* the calls (so no two calls, concurrent or not, got the same id) and
\* none is 0.
C6_IdsStrictlyIncrease ==
    /\ \A i \in 1..Len(issued) : issued[i] # 0
    /\ \A i \in 1..Len(issued), j \in 1..Len(issued) : i < j => issued[i] < issued[j]

\* two clients are inside post_tweet at once, each with its own id
C6_Witness ==
    /\ pc["p1"] \in PostPcs /\ pc["p2"] \in PostPcs
    /\ loc["p1"].tweet_id # loc["p2"].tweet_id
    /\ Len(issued) >= 2

\* C9: with a cap K configured, every timeline holds at most K entries in
\* every state, the states between the commands of running posts included.
C9_AlwaysWithinCap ==
    Capped => \A u \in Users : Cardinality(timeline[u]) <= K

\* the k highest-ranked entries of a set of entries (all without a cap)
KeepTop(z) ==
    IF Capped THEN {x \in z : Cardinality({y \in z : ZLess(x, y)}) < K} ELSE z

\* a sequence of members lists the entries of z from the highest rank down
ReadsInRankOrder(ids, z) ==
    /\ \A i \in 1..Len(ids) : ids[i] \in Members(z)
    /\ \A i \in 1..Len(ids), j \in 1..Len(ids) :
         i < j => \E x \in z, y \in z : /\ x.member = ids[i] /\ y.member = ids[j]
                                       /\ ZLess(y, x)

\* C10: once the posts have completed, a timeline holds the top K (by
\* score, then member) of the entries that were written to it, and reads
\* list them in that order: content and order are a function of the set of
\* entries written, whatever the order in which the writes arrived.
C10_FinalTimelineIgnoresArrival ==
    NoPostRunning =>
        \A u \in Users :
            /\ timeline[u] = KeepTop(Range(arrivals[u]))
            /\ ReadsInRankOrder(TopOfTimeline(u), timeline[u])
            /\ Len(TopOfTimeline(u)) = Cardinality(timeline[u])

\* posts of two followees were written to one follower's timeline, the
\* higher-scored one first and the commands of the two fan-outs mixed;
\* the read lists the higher-scored one first
C10_Witness ==
    /\ NoPostRunning
    /\ \E f \in Users :
         /\ Len(arrivals[f]) = 2
         /\ arrivals[f][1].score > arrivals[f][2].score
         /\ tweet[ParseInt(arrivals[f][1].member)].user_id
              # tweet[ParseInt(arrivals[f][2].member)].user_id
         /\ tweet[ParseInt(arrivals[f][1].member)].user_id # Str(f)
         /\ tweet[ParseInt(arrivals[f][2].member)].user_id # Str(f)
         /\ Len(TopOfTimeline(f)) >= 1
         /\ TopOfTimeline(f)[1] = arrivals[f][1].member

LoadExecPcs == {"load_chunk_exec", "load_final_exec"}

LoadPcs == {"load_read", "load_ret", "load_raise"} \cup LoadExecPcs

\* the follow edges <<follower_id, followee_id>> the store holds
Edges == UNION {{<<ParseInt(m), u>> : m \in followers[u]} : u \in Users}

\* the data rows a load has read: not the header, not the blank lines
DataRows(l) ==
    LET body == IF l.has_header /\ Len(l.rows) > 0 THEN Tail(l.rows) ELSE l.rows
        NotBlank(r) == Strip(r) # <<>>
    IN  SelectSeq(body, NotBlank)

RowEdge(r) == <<ParseInt(Split1(Strip(r))[1]), ParseInt(Split1(Strip(r))[2])>>

\* the distinct edges of the data rows a load has read
InputEdges(l) == {RowEdge(r) : r \in Range(DataRows(l))}

\* C5: the counts load_follows_csv returns count each stored edge once,
\* however often it was inserted (as long as no load has raised); and a
\* load on an empty graph returns the number of distinct edges of its
\* input, which is below the number of data rows when a row is repeated.
C5_LoadCountsNewEdges ==
    /\ ((\A p \in Procs : pc[p] \notin LoadPcs) /\ ~raised)
          => reported = Cardinality(Edges)
    /\ \A p \in Procs :
         (/\ pc[p] = "load_ret"
          /\ reported = 0 /\ ~raised
          /\ \A q \in Procs \ {p} : pc[q] \notin LoadPcs)
         => /\ loc[p].inserted = Cardinality(InputEdges(loc[p]))
            /\ Len(DataRows(loc[p])) > Cardinality(InputEdges(loc[p]))
                 => loc[p].inserted < Len(DataRows(loc[p]))

\* a load on the empty graph returns 2 for three data rows whose first and
\* third are the same edge, flushed in different chunks
C5_Witness ==
    \E p \in Procs :
        /\ pc[p] = "load_ret"
        /\ reported = 0 /\ ~raised
        /\ \A q \in Procs \ {p} : pc[q] \notin LoadPcs
        /\ Len(DataRows(loc[p])) = 3
        /\ DataRows(loc[p])[1] = DataRows(loc[p])[3]
        /\ DataRows(loc[p])[1] # DataRows(loc[p])[2]
        /\ loc[p].inserted = 2

\* C7: whenever no chunk of a load is being flushed, every follower id of
\* a stored follow edge is in all_followers.
C7_FollowersAreSampled ==
    (\A p \in Procs : pc[p] \notin LoadExecPcs)
        => \A u \in Users : followers[u] \subseteq all_followers

\* a load stops part-way: a malformed line raises after a chunk of two
\* new edges was flushed
C7_Witness ==
    \E p \in Procs :
        /\ pc[p] = "load_raise"
        /\ loc[p].inserted = 2
        /\ \A q \in Procs : pc[q] \notin LoadExecPcs
        /\ Cardinality(Edges) = 2
        /\ all_followers # {}

\* C8: get_random_follower_id raises nothing; it returns None exactly when
\* all_followers is empty at its SRANDMEMBER, and else a member of it.
C8_SampleNeverRaises ==
    [][\A p \in Procs :
         (pc[p] = "idle" /\ pc'[p] = "sample_ret")
         => /\ loc'[p].error = None
            /\ (loc'[p].v = None) <=> (all_followers = {})
            /\ loc'[p].v # None => Str(The(loc'[p].v)) \in all_followers]_vars

\* a sample returned a follower id while the other client was loading
C8_Witness ==
    \E p \in Procs, q \in Procs :
        /\ pc[p] = "sample_ret"
        /\ loc[p].v # None
        /\ pc[q] \in LoadPcs

\* the score a timeline holds for a tweet id
ScoreOf(z, tweet_id) == (CHOOSE x \in z : x.member = Str(tweet_id)).score

\* the tweet ids of a result of get_home_timeline
TweetIds(out) == {out[i].tweet_id : i \in 1..Len(out)}

\* C2: when post_tweet is about to return, every follower the author had
\* at the time of posting has the post in its home timeline, unless that
\* follower's timeline was at capacity K and the post's score was not
\* among its top K scores.
C2_FollowersSeePost ==
    \A p \in Procs :
        pc[p] = "post_ret" =>
            \A m \in loc[p].fans :
                \/ m \in loc[p].excused
                \/ loc[p].tweet_id \in TweetIds(HomeTimeline(ParseInt(m)))

\* C3: when post_tweet is about to return, the first element of the
\* author's home timeline is the post, with its text.
C3_NewPostReadsFirst ==
    \A p \in Procs :
        pc[p] = "post_ret" =>
            LET out == HomeTimeline(loc[p].user_id)
            IN  /\ Len(out) >= 1
                /\ out[1].tweet_id = loc[p].tweet_id
                /\ out[1].tweet_text = loc[p].tweet_text

\* C4 as claimed: a home timeline has at most 10 posts, and the scores of
\* consecutive posts are strictly descending.
C4_StrictlyDescending ==
    \A u \in Users :
        LET out == HomeTimeline(u)
        IN  /\ Len(out) <= ReadStop + 1
            /\ \A i \in 1..(Len(out) - 1) :
                 ScoreOf(timeline[u], out[i].tweet_id)
                   > ScoreOf(timeline[u], out[i + 1].tweet_id)

\* C4 as amended: a home timeline has at most 10 posts, and the scores of
\* consecutive posts never ascend; posts of one score follow one another
\* in the descending order of their id strings.
C4_NeverAscending ==
    \A u \in Users :
        LET out == HomeTimeline(u)
        IN  /\ Len(out) <= ReadStop + 1
            /\ \A i \in 1..(Len(out) - 1) :
                 LET a == ScoreOf(timeline[u], out[i].tweet_id)
                     b == ScoreOf(timeline[u], out[i + 1].tweet_id)
                 IN  \/ a > b
                     \/ a = b /\ StrLess(Str(out[i + 1].tweet_id), Str(out[i].tweet_id))

\* a timeline of more than 10 entries reads as 10 posts, two of one score
C4_Witness ==
    \E u \in Users :
        LET out == HomeTimeline(u)
        IN  /\ Cardinality(timeline[u]) > ReadStop + 1
            /\ Len(out) = ReadStop + 1
            /\ \E i \in 1..(Len(out) - 1) :
                 ScoreOf(timeline[u], out[i].tweet_id)
                   = ScoreOf(timeline[u], out[i + 1].tweet_id)
            /\ \E i \in 1..(Len(out) - 1) :
                 ScoreOf(timeline[u], out[i].tweet_id)
                   > ScoreOf(timeline[u], out[i + 1].tweet_id)

\* the entries that were ever written to some timeline
Written == UNION {Range(arrivals[u]) : u \in Users}

\* C11: scores follow the order in which the ids were allocated: of two
\* posts, those of concurrent callers included, the one with the smaller id
\* has a score that is not larger.
C11_ScoresFollowIds ==
    \A x \in Written, y \in Written :
        ParseInt(x.member) < ParseInt(y.member) => x.score <= y.score

\* the timelines the commands of a pipeline write to
KeysOf(pipe) == {pipe[i].key : i \in 1..Len(pipe)}

\* the followers whose writes a post has handed to execute()
Flushed(l) == {ParseInt(m) : m \in {x \in l.seen : IsInt(x)}} \ KeysOf(l.pipe)

\* the tweet ids that were ever written to a user's timeline
WrittenTo(u) == {ParseInt(x.member) : x \in Range(arrivals[u])}

\* C12: when a fan-out fails between two flushes, the chunks flushed before
\* are applied whole (every follower in them has received the post), no
\* command of the chunk that was being filled is applied, no timeline is
\* left with an append whose trim is missing, and the author's hash and
\* timeline entry stay written.
C12_FailedFanoutLeavesWholeChunks ==
    \A p \in Procs :
        pc[p] = "post_raise" =>
            LET l == loc[p]
            IN  /\ l.flight = <<>>
                /\ \A f \in Flushed(l) : l.tweet_id \in WrittenTo(f)
                /\ \A f \in KeysOf(l.pipe) \ {l.user_id} : l.tweet_id \notin WrittenTo(f)
                /\ Capped => \A u \in Users : Cardinality(timeline[u]) <= K
                /\ l.tweet_id \in DOMAIN tweet
                /\ l.tweet_id \in WrittenTo(l.user_id)

\* a fan-out to three followers fails after its first chunk of two was
\* flushed, with the third follower's writes queued and a cap configured
C12_Witness ==
    \E p \in Procs :
        /\ pc[p] = "post_raise"
        /\ Capped /\ K >= 1
        /\ Cardinality(Flushed(loc[p])) = FanoutChunk
        /\ KeysOf(loc[p].pipe) \ {loc[p].user_id} # {}
        /\ \E f \in Flushed(loc[p]) : f # loc[p].user_id /\ Cardinality(Range(arrivals[f])) > K

\* the author a stored hash names
AuthorOf(tweet_id) == ParseInt(tweet[tweet_id].user_id)

\* C13: a post that was written to any timeline has its hash stored and
\* was written to its author's timeline before: no follower receives a
\* post ahead of the author's own update.
C13_AuthorBeforeFollowers ==
    \A u \in Users :
        \A i \in WrittenTo(u) :
            /\ i \in DOMAIN tweet
            /\ i \in WrittenTo(AuthorOf(i))

\* a fan-out is being flushed and a follower who is not the author has
\* received the post
C13_Witness ==
    \E p \in Procs :
        /\ pc[p] \in {"post_chunk_exec", "post_final_exec"}
        /\ loc[p].flight # <<>>
        /\ \E f \in Users \ {loc[p].user_id} : loc[p].tweet_id \in WrittenTo(f)

Min(a, b) == IF a < b THEN a ELSE b

C19_TimelineEntriesHaveRecords ==
    \A u \in Users :
        \A x \in timeline[u] : ParseInt(x.member) \in DOMAIN tweet

\* two clients are flushing at once, and one of them is between the ZADD
\* to its author's timeline and the trim
C19_Witness ==
    \E p \in Procs, q \in Procs :
        /\ p # q
        /\ pc[p] = "post_author_exec"
        /\ pc[q] \in ExecPcs /\ loc[q].flight # <<>>
        /\ Len(loc[p].flight) = 1
        /\ Head(loc[p].flight).op = "ZREMRANGEBYRANK"
        /\ \E x \in timeline[loc[p].user_id] : x.member = Str(loc[p].tweet_id)

FanoutPcs == {"post_scan", "post_chunk_exec", "post_final_exec"}

\* C17: during a fan-out the pipeline never holds more commands than the
\* chunk size, and no flush sends more than that.
C17_FlushWithinChunk ==
    \A p \in Procs :
        pc[p] \in FanoutPcs =>
            /\ Len(loc[p].pipe) <= FanoutChunk
            /\ Len(loc[p].flight) <= FanoutChunk

\* C14: get_home_timeline returns without an error; its result lists, in
\* the order of the ZREVRANGE reply, the entries whose hash is stored, each
\* with the fields of its hash, and is empty for an empty or missing
\* timeline.
C14_MissingRecordsAreSkipped ==
    \A p \in Procs :
        pc[p] = "home_ret" =>
            LET l         == loc[p]
                ids       == [i \in 1..Len(l.tweet_ids) |-> ParseInt(l.tweet_ids[i])]
                Stored(i) == i \in DOMAIN tweet
                kept      == SelectSeq(ids, Stored)
            IN  /\ l.error = None
                /\ Len(l.out) = Len(kept)
                /\ \A k \in 1..Len(kept) :
                     /\ l.out[k].tweet_id = kept[k]
                     /\ l.out[k].tweet_text = tweet[kept[k]].tweet_text
                     /\ l.out[k].tweet_ts = tweet[kept[k]].tweet_ts
                /\ timeline[l.user_id] = {} => l.out = <<>>

\* a read of three entries whose second has no hash returns the first and
\* the third, in that order
C14_Witness ==
    \E p \in Procs :
        /\ pc[p] = "home_ret"
        /\ Len(loc[p].tweet_ids) = 3
        /\ ParseInt(loc[p].tweet_ids[2]) \notin DOMAIN tweet
        /\ Len(loc[p].out) = 2
        /\ loc[p].out[1].tweet_id = ParseInt(loc[p].tweet_ids[1])
        /\ loc[p].out[2].tweet_id = ParseInt(loc[p].tweet_ids[3])

\* C15: a load that meets a malformed line raises, and (on a store that was
\* empty, with no other load) leaves none of its edges in the store.
C15_FailedLoadLeavesNothing ==
    \A p \in Procs :
        (pc[p] = "load_raise" /\ lines_read = Len(loc[p].rows))
            => /\ loc[p].error # None
               /\ Edges = {}

\* C18: when load_follows_csv is about to return, nothing is left queued,
\* and every edge of its input is in the three sets: the follower in
\* followers:{followee}, the followee in following:{follower}, the follower
\* in all_followers.
C18_ReturnedLoadIsFlushed ==
    \A p \in Procs :
        pc[p] = "load_ret" =>
            /\ loc[p].flight = <<>>
            /\ \A e \in InputEdges(loc[p]) :
                 /\ Str(e[1]) \in followers[e[2]]
                 /\ Str(e[2]) \in following[e[1]]
                 /\ Str(e[1]) \in all_followers

\* a load of three distinct edges returns: one full chunk of two edges and
\* a remainder of one
C18_Witness ==
    \E p \in Procs :
        /\ pc[p] = "load_ret"
        /\ lines_read = Len(loc[p].rows)
        /\ Cardinality(InputEdges(loc[p])) = 3
        /\ loc[p].inserted = 3

\* a load whose input is exactly one chunk returns, and so does a load of
\* an empty input
C18_WitnessWholeChunk ==
    \E p \in Procs, q \in Procs :
        /\ p # q
        /\ pc[p] = "load_ret" /\ pc[q] = "load_ret"
        /\ OpsPerEdge * Len(DataRows(loc[p])) = LoadChunkOps
        /\ loc[p].inserted * OpsPerEdge = LoadChunkOps
        /\ loc[q].rows = <<>>

\* C20: a timeline changes only when the server applies a ZADD or a trim
\* of a running post to it, the timeline being the author's or that of a
\* follower id the post's SSCAN has returned; the ids the SSCAN returns are
\* members of followers:{author} when they are returned; and an entry that
\* appears is the post's own.  No step of load_follows_csv or of
\* get_home_timeline changes a timeline.
C20_NoDeliveryToNonFollowers ==
    [][/\ \A p \in Procs :
            pc'[p] \in FanoutPcs =>
                loc'[p].seen \subseteq loc[p].seen \cup followers[loc[p].user_id]
       /\ \A u \in Users :
            timeline'[u] # timeline[u] =>
                \E p \in Procs :
                    /\ pc[p] \in PostPcs
                    /\ loc[p].flight # <<>>
                    /\ loc'[p].flight = Tail(loc[p].flight)
                    /\ Head(loc[p].flight).op \in {"ZADD", "ZREMRANGEBYRANK"}
                    /\ Head(loc[p].flight).key = u
                    /\ u = loc[p].user_id \/ Str(u) \in loc[p].seen
                    /\ Members(timeline'[u])
                         \subseteq Members(timeline[u]) \cup {Str(loc[p].tweet_id)}]_vars

\* a user who started to follow the author while the fan-out was running
\* has received the post, a user who does not follow has not, and the
\* other client has loaded edges and is reading a timeline
C20_Witness ==
    \E p \in Procs, q \in Procs :
        /\ pc[p] \in FanoutPcs \cup {"post_ret"}
        /\ pc[q] \in {"home_resolve", "home_ret"}
        /\ lines_read > 0
        /\ \E u \in Users \ {loc[p].user_id} :
             /\ Str(u) \notin loc[p].scan0
             /\ Str(loc[p].tweet_id) \in Members(timeline[u])
        /\ \E w \in Users \ {loc[p].user_id} :
             /\ Str(w) \notin followers[loc[p].user_id]
             /\ timeline[w] = {}

====
